---- MODULE Spec2Model ----
(***************************************************************************)
(* GeoIA Territorial: the catalog (core/data_store.py, GeoDataStore) and   *)
(* the script engine (core/execution_engine.py, CodeExecutionEngine).      *)
(*                                                                         *)
(* Names (file stems, dataset names, identifiers of the script namespace)  *)
(* are sequences of one-character strings, so that the sanitizing of a     *)
(* dataset name is computed character by character.  Python's None is 0    *)
(* where the other values are positive object ids, "None" where they are   *)
(* strings and <<>> where they are tuples.  A dict is the sequence of its  *)
(* items in insertion order.                                               *)
(***************************************************************************)
EXTENDS Integers, Sequences, FiniteSets, TLC

VARIABLES
    disk,          \* the files under the one existing root directory
    root_path,     \* GeoDataStore.root_path ("None" before the first connect)
    layers,        \* GeoDataStore.layers: dict name -> LayerInfo
    documents,     \* GeoDataStore.documents: dict name -> DocumentInfo
    maps,          \* GeoDataStore.maps: dict name -> path
    is_connected,  \* GeoDataStore.is_connected
    last_scan,     \* GeoDataStore.last_scan (0 is None)
    observers,     \* GeoDataStore._observers
    notified,      \* the observer calls made by the last operation, in order
    heap,          \* the GeoDataFrame objects made so far, by object id
    parses,        \* number of gpd.read_file(layer.path) calls of load_layer
    ret,           \* what the last operation of the store returned
    folium_Map,    \* the Map attribute of the folium module
    engines,       \* the CodeExecutionEngine objects made so far, by id
    lists,         \* the list objects made for generated_maps, by id
    n_maps,        \* number of folium map objects constructed so far
    calls,         \* number of execute() calls made so far
    sys_stdout,    \* sys.stdout: 0 is the stream of the process, e the
                   \* output_buffer of the call running on engine e
    exec_ret,      \* the outcome of the last execute() call
    threads        \* the execute() calls of callers that do not wait for
                   \* each other, each with its position and its locals

storeVars == <<disk, root_path, layers, documents, maps, is_connected,
               last_scan, observers, notified, heap, parses, ret>>

engineVars == <<folium_Map, engines, lists, n_maps, calls, sys_stdout, exec_ret,
                threads>>

vars == <<storeVars, engineVars>>

----------------------------------------------------------------------------
(* Bounds of the model *)

MaxFiles == 2       \* files on the disk at any one time
MaxParses == 2      \* read_file calls made by load_layer
MaxTime == 2        \* readings of the clock
MaxObservers == 1   \* registered observers
MaxLen == 2         \* statements of a script
MaxCalls == 2       \* execute() calls
MaxThreads == 2     \* callers that do not wait for each other

----------------------------------------------------------------------------
(* Names *)

N_r == <<"r">>
N_b == <<"b">>
N_d == <<"d">>
N_n == <<"n">>
N_p == <<"p">>
N_zz == <<"z", "z">>
N_a_dash_b == <<"a", "-", "b">>
N_a_b == <<"a", "_", "b">>
N_capas == <<"c", "a", "p", "a", "s">>

(* dict helpers: a dict of records that carry their key in field name *)
Keys(d) == {d[i].name : i \in 1..Len(d)}

HasKey(d, k) == \E i \in 1..Len(d) : d[i].name = k

Get(d, k) == d[CHOOSE i \in 1..Len(d) : d[i].name = k]

\* d[k] = v of a Python dict: an existing key keeps its position
Put(d, v) ==
    IF HasKey(d, v.name)
    THEN [i \in 1..Len(d) |-> IF d[i].name = v.name THEN v ELSE d[i]]
    ELSE Append(d, v)

----------------------------------------------------------------------------
(* The file system.  folder is the conventional subfolder of the root the  *)
(* file lies under ("" when it lies elsewhere under the root); ok says     *)
(* whether geopandas can parse it.  Every entry is a regular file, and a   *)
(* folder is there when a file lies under it.                              *)

File(path, folder, stem, ext, ok) ==
    [path |-> path, folder |-> folder, stem |-> stem, ext |-> ext, ok |-> ok]

\* the directory contents the scans range over
ScanUniverse ==
    { File("capas/r.shp", "capas", N_r, ".shp", TRUE),
      File("capas/old/r.SHP", "capas", N_r, ".SHP", TRUE),
      File("capas/r.geojson", "capas", N_r, ".geojson", TRUE),
      File("capas/b.gpkg", "capas", N_b, ".gpkg", FALSE),
      File("b.gpkg", "", N_b, ".gpkg", TRUE),
      File("documentos/d.pdf", "documentos", N_d, ".pdf", TRUE),
      File("documentos/d.txt", "documentos", N_d, ".txt", TRUE),
      File("n.md", "", N_n, ".md", TRUE),
      File("mapas/p.qgz", "mapas", N_p, ".qgz", TRUE),
      File("mapas/p.qgs", "mapas", N_p, ".qgs", TRUE),
      File("capas", "", N_capas, "", TRUE) }

\* the directory contents the loads range over: a layer that parses,
\* one that may be corrupt, and a sidecar file of the first
LoadUniverse ==
    { File("capas/r.shp", "capas", N_r, ".shp", TRUE),
      File("capas/r.dbf", "capas", N_r, ".dbf", TRUE),
      File("capas/b.gpkg", "capas", N_b, ".gpkg", TRUE),
      File("capas/b.gpkg", "capas", N_b, ".gpkg", FALSE) }

FileUniverse == ScanUniverse \cup LoadUniverse

DiskStates(U) ==
    { D \in SUBSET U :
        /\ Cardinality(D) <= MaxFiles
        /\ \A f, g \in D : f.path = g.path => f = g
        /\ \A f, g \in D : f.path # g.folder }

Roots == {"R", "missing"}

\* Path(path).exists()
Exists(path) == path = "R"

\* (root / sub).exists(): true of a folder and of a regular file of that name
FolderExists(d, sub) == \E f \in d : f.folder = sub \/ f.path = sub

\* folder.rglob("*") as a set; the order of the walk is the file system's
Under(d, sub) == IF sub = "" THEN d ELSE {f \in d : f.folder = sub}

\* all the orders in which a walk can yield the files of d
Walks(d) ==
    { w \in [1..Cardinality(d) -> d] :
        \A i, j \in 1..Cardinality(d) : w[i] = w[j] => i = j }

LAYER_EXTENSIONS == {".shp", ".geojson", ".gpkg", ".kml", ".gml", ".json"}
DOC_EXTENSIONS == {".pdf", ".docx", ".doc", ".txt", ".md", ".csv", ".xlsx"}
MAP_EXTENSIONS == {".qgz", ".qgs", ".qml", ".sld"}

\* file.suffix.lower()
Lower(ext) == IF ext = ".SHP" THEN ".shp" ELSE ext

\* file.suffix.lower().replace('.', '')
Format(ext) ==
    CASE Lower(ext) = ".shp" -> "shp"
      [] Lower(ext) = ".geojson" -> "geojson"
      [] Lower(ext) = ".gpkg" -> "gpkg"
      [] Lower(ext) = ".pdf" -> "pdf"
      [] Lower(ext) = ".txt" -> "txt"
      [] Lower(ext) = ".md" -> "md"
      [] Lower(ext) = ".qgz" -> "qgz"
      [] Lower(ext) = ".qgs" -> "qgs"
      [] OTHER -> "dbf"

----------------------------------------------------------------------------
(* GeoDataStore *)

LayerInfo(name, path, format, geometry_type, crs, feature_count, columns, bounds) ==
    [name |-> name, path |-> path, format |-> format,
     geometry_type |-> geometry_type, crs |-> crs,
     feature_count |-> feature_count, columns |-> columns, bounds |-> bounds,
     loaded |-> FALSE, gdf |-> 0]

DocumentInfo(name, path, format) ==
    [name |-> name, path |-> path, format |-> format]

\* a scan that keeps the entry it had for a file whose path is unchanged
AnalyzeLayer_Reuse(file) ==
    IF HasKey(layers, file.stem) /\ Get(layers, file.stem).path = file.path
    THEN Get(layers, file.stem)
    ELSE IF file.ok
    THEN LayerInfo(file.stem, file.path, Format(file.ext),
                   "Polygon", "EPSG:4326", 2, <<"c">>, <<0, 0, 1, 1>>)
    ELSE LayerInfo(file.stem, file.path, Format(file.ext),
                   "None", "None", 0, <<>>, <<>>)

\* _analyze_layer: the metadata of a file that parses, the basic entry of one
\* that does not
AnalyzeLayer(file) ==
    IF file.ok
    THEN LayerInfo(file.stem, file.path, Format(file.ext),
                   "Polygon", "EPSG:4326", 2, <<"c">>, <<0, 0, 1, 1>>)
    ELSE LayerInfo(file.stem, file.path, Format(file.ext),
                   "None", "None", 0, <<>>, <<>>)

\* a scan of the layers that ends at the first file it cannot analyze
RECURSIVE ScanLayersFrom_Abort(_, _, _, _)
ScanLayersFrom_Abort(w, i, acc, seen) ==
    IF i > Len(w) THEN acc
    ELSE LET file == w[i] IN
         IF Lower(file.ext) \in LAYER_EXTENSIONS
         THEN IF ~file.ok THEN acc
              ELSE IF Lower(file.ext) = ".shp" /\ file.stem \in seen
              THEN ScanLayersFrom_Abort(w, i + 1, acc, seen)
              ELSE ScanLayersFrom_Abort(w, i + 1, Put(acc, AnalyzeLayer(file)),
                       IF Lower(file.ext) = ".shp"
                       THEN seen \cup {file.stem} ELSE seen)
         ELSE ScanLayersFrom_Abort(w, i + 1, acc, seen)

\* _scan_layers over the walk w from position i on; acc is self.layers and
\* seen is processed_shapefiles
RECURSIVE ScanLayersFrom(_, _, _, _)
ScanLayersFrom(w, i, acc, seen) ==
    IF i > Len(w) THEN acc
    ELSE LET file == w[i] IN
         IF Lower(file.ext) \in LAYER_EXTENSIONS
         THEN IF Lower(file.ext) = ".shp" /\ file.stem \in seen
              THEN ScanLayersFrom(w, i + 1, acc, seen)
              ELSE ScanLayersFrom(w, i + 1, Put(acc, AnalyzeLayer(file)),
                       IF Lower(file.ext) = ".shp"
                       THEN seen \cup {file.stem} ELSE seen)
         ELSE ScanLayersFrom(w, i + 1, acc, seen)

\* a scan that adds to the entries of the scan before
ScanLayers_Keep(w) == ScanLayersFrom(w, 1, layers, {})

\* lines 88 and 140: the scan starts from no entry and no shapefile seen
ScanLayers(w) == ScanLayersFrom(w, 1, <<>>, {})

\* _scan_documents (every entry of the disk is a regular file)
RECURSIVE ScanDocumentsFrom(_, _, _)
ScanDocumentsFrom(w, i, acc) ==
    IF i > Len(w) THEN acc
    ELSE LET file == w[i] IN
         IF Lower(file.ext) \in DOC_EXTENSIONS
         THEN ScanDocumentsFrom(w, i + 1,
                  Put(acc, DocumentInfo(file.stem, file.path, Format(file.ext))))
         ELSE ScanDocumentsFrom(w, i + 1, acc)

ScanDocuments(w) == ScanDocumentsFrom(w, 1, <<>>)

\* _scan_maps
RECURSIVE ScanMapsFrom(_, _, _)
ScanMapsFrom(w, i, acc) ==
    IF i > Len(w) THEN acc
    ELSE LET file == w[i] IN
         IF Lower(file.ext) \in MAP_EXTENSIONS
         THEN ScanMapsFrom(w, i + 1, Put(acc, [name |-> file.stem, path |-> file.path]))
         ELSE ScanMapsFrom(w, i + 1, acc)

ScanMaps(w) == ScanMapsFrom(w, 1, <<>>)

\* the walk w of the whole root restricted to one folder, order kept
RECURSIVE Restrict(_, _)
Restrict(w, sub) ==
    IF w = <<>> THEN <<>>
    ELSE IF sub = "" \/ Head(w).folder = sub
         THEN <<Head(w)>> \o Restrict(Tail(w), sub)
         ELSE Restrict(Tail(w), sub)

\* a scan that always walks the whole root
ScanScope_AlwaysRoot(d, sub) == ""

\* the folder _scan_folder walks for one kind: the conventional subfolder
\* when it exists, the root otherwise
ScanScope(d, sub) == IF FolderExists(d, sub) THEN sub ELSE ""

\* what an operation of the store gave its caller: ok is the success flag of
\* connect, capas, documentos and mapas its summary and ts its timestamp; gdf
\* is the handle load_layer returned (0 is None), map the dict of
\* load_all_layers; parsed counts the read_file calls the operation made.
\* error is the path the error message of connect names ("None" when the
\* dict has no error), summary says whether the dict has a summary, and walk
\* is the order in which the directory gave the files to _scan_layers
NoRet ==
    [op |-> "none", name |-> <<>>, ok |-> FALSE, gdf |-> 0, parsed |-> 0,
     capas |-> 0, documentos |-> 0, mapas |-> 0, ts |-> 0, map |-> <<>>,
     error |-> "None", summary |-> FALSE, walk |-> <<>>]

\* what an observer finds in the store when it is called
Seen(connected, scan, ls) ==
    [is_connected |-> connected, last_scan |-> scan, layers |-> ls]

\* an observer list that is gone through twice
Notify_Twice(event, name, gdf, seen) ==
    [i \in 1..(2 * Len(observers)) |->
        [observer |-> observers[((i - 1) % Len(observers)) + 1],
         event |-> event, name |-> name, gdf |-> gdf, seen |-> seen]]

\* _notify_observers(event, data): one call per registered observer, in the
\* order of registration; seen is the store as it is at the call
Notify(event, name, gdf, seen) ==
    [i \in 1..Len(observers) |->
        [observer |-> observers[i], event |-> event, name |-> name,
         gdf |-> gdf, seen |-> seen]]

\* a failure dict that carries a summary of zero counts
MissingResult_WithCounts(path) ==
    [NoRet EXCEPT !.op = "connect", !.ok = FALSE, !.error = path,
                  !.summary = TRUE]

\* line 85: the dict connect returns for a path that does not exist
MissingResult(path) ==
    [NoRet EXCEPT !.op = "connect", !.ok = FALSE, !.error = path]

\* a connect that empties the catalog before it looks at the path
ConnectMissing_Resets(path) ==
    /\ ~Exists(path)
    /\ ret' = MissingResult(path)
    /\ notified' = <<>>
    /\ root_path' = path
    /\ layers' = <<>>
    /\ documents' = <<>>
    /\ maps' = <<>>
    /\ UNCHANGED <<disk, is_connected, last_scan, observers, heap, parses>>
    /\ UNCHANGED engineVars

\* connect(path) on a path that does not exist
ConnectMissing(path) ==
    /\ ~Exists(path)
    /\ ret' = MissingResult(path)
    /\ notified' = <<>>
    /\ UNCHANGED <<disk, root_path, layers, documents, maps, is_connected,
                   last_scan, observers, heap, parses>>
    /\ UNCHANGED engineVars

\* a connect that empties in place the dicts handed to the engines
ConnectOk_ClearsBindings(path, w, t) ==
    /\ Exists(path)
    /\ root_path' = path
    /\ layers' = ScanLayersFrom(Restrict(w, ScanScope(disk, "capas")), 1, <<>>, {})
    /\ documents' = <<>>
    /\ maps' = <<>>
    /\ is_connected' = TRUE
    /\ last_scan' = t
    /\ notified' = <<>>
    /\ ret' = [NoRet EXCEPT !.op = "connect", !.ok = TRUE, !.ts = t,
                            !.summary = TRUE]
    /\ engines' = [e \in 1..Len(engines) |-> [engines[e] EXCEPT !.layers = <<>>]]
    /\ UNCHANGED <<disk, observers, heap, parses>>
    /\ UNCHANGED <<folium_Map, lists, n_maps, calls, sys_stdout, exec_ret,
                   threads>>

\* connect(path) on an existing root; w is the order of the directory walk
\* and t the reading of the clock, which is later than that of the scan
\* before
ConnectOk(path, w, t) ==
    /\ Exists(path)
    /\ root_path' = path
    /\ layers' = ScanLayers(Restrict(w, ScanScope(disk, "capas")))
    /\ documents' = ScanDocuments(Restrict(w, ScanScope(disk, "documentos")))
    /\ maps' = ScanMaps(Restrict(w, ScanScope(disk, "mapas")))
    /\ is_connected' = TRUE
    /\ last_scan' = t
    /\ notified' = Notify("connected", <<>>, 0, Seen(TRUE, t, layers'))
    /\ ret' = [NoRet EXCEPT !.op = "connect", !.ok = TRUE,
                            !.capas = Len(layers'),
                            !.documentos = Len(documents'),
                            !.mapas = Len(maps'), !.ts = t,
                            !.summary = TRUE,
                            !.walk = Restrict(w, ScanScope(disk, "capas"))]
    /\ UNCHANGED <<disk, observers, heap, parses>>
    /\ UNCHANGED engineVars

Connect ==
    \E path \in Roots :
        \/ ConnectMissing(path)
        \/ \E w \in Walks(disk), t \in (last_scan + 1)..MaxTime :
              ConnectOk(path, w, t)

\* gpd.read_file(path) of load_layer succeeds when the file is there and parses
Readable(d, path) == \E f \in d : f.path = path /\ f.ok

\* a GeoDataFrame object fresh from read_file
NewGdf(path) == [path |-> path, hasMap |-> FALSE, Map |-> <<>>]

\* a load that never takes the handle of the entry
Cached_Never(layer) == FALSE

\* line 221: the entry holds a handle
Cached(layer) == layer.gdf # 0

\* load_layer(layer_name) as a function of the store: the layers, the heap,
\* the value returned (0 is None), whether read_file was called and the
\* observer calls made
LoadLayer(ls, hp, d, name) ==
    IF ~HasKey(ls, name)
    THEN [layers |-> ls, heap |-> hp, gdf |-> 0, parsed |-> FALSE, notified |-> <<>>]
    ELSE LET layer == Get(ls, name) IN
         IF Cached(layer)
         THEN [layers |-> ls, heap |-> hp, gdf |-> layer.gdf, parsed |-> FALSE,
               notified |-> <<>>]
         ELSE IF Readable(d, layer.path)
              THEN LET h == Len(hp) + 1
                       cached == Put(ls, [layer EXCEPT !.gdf = h, !.loaded = TRUE])
                   IN
                   [layers |-> cached,
                    heap |-> Append(hp, NewGdf(layer.path)),
                    gdf |-> h, parsed |-> TRUE,
                    notified |-> Notify("layer_loaded", name, h,
                                        Seen(is_connected, last_scan, cached))]
              ELSE [layers |-> ls, heap |-> hp, gdf |-> 0, parsed |-> TRUE,
                    notified |-> <<>>]

\* the names a caller may ask for: those of the universe and an unknown one
LayerNames == {f.stem : f \in FileUniverse} \cup {N_zz}

\* a call of load_layer(name)
LoadOf(name) ==
    \E r \in {LoadLayer(layers, heap, disk, name)} :
        /\ r.parsed => parses < MaxParses
        /\ layers' = r.layers
        /\ heap' = r.heap
        /\ parses' = IF r.parsed THEN parses + 1 ELSE parses
        /\ notified' = r.notified
        /\ ret' = [NoRet EXCEPT !.op = "load", !.name = name, !.gdf = r.gdf,
                                !.parsed = IF r.parsed THEN 1 ELSE 0]
        /\ UNCHANGED <<disk, root_path, documents, maps, is_connected,
                       last_scan, observers>>
        /\ UNCHANGED engineVars

Load == \E name \in LayerNames : LoadOf(name)

\* a load_all_layers that gives up at the first entry that fails to load
RECURSIVE LoadAllFrom_StopOnFailure(_, _, _)
LoadAllFrom_StopOnFailure(st, d, i) ==
    IF i > Len(st.layers) THEN st
    ELSE LET name == st.layers[i].name
             r == LoadLayer(st.layers, st.heap, d, name)
         IN  IF r.gdf = 0
             THEN [st EXCEPT !.parsed = IF r.parsed THEN @ + 1 ELSE @]
             ELSE LoadAllFrom_StopOnFailure(
                      [layers |-> r.layers, heap |-> r.heap,
                       loaded |-> Append(st.loaded, [name |-> name, gdf |-> r.gdf]),
                       parsed |-> IF r.parsed THEN st.parsed + 1 ELSE st.parsed,
                       notified |-> st.notified \o r.notified],
                      d, i + 1)

\* load_all_layers from the i-th name on: st carries the layers, the heap,
\* the dict loaded, the number of read_file calls and the observer calls
RECURSIVE LoadAllFrom(_, _, _)
LoadAllFrom(st, d, i) ==
    IF i > Len(st.layers) THEN st
    ELSE LET name == st.layers[i].name
             r == LoadLayer(st.layers, st.heap, d, name)
         IN  LoadAllFrom(
                 [layers |-> r.layers, heap |-> r.heap,
                  loaded |-> IF r.gdf # 0
                             THEN Append(st.loaded, [name |-> name, gdf |-> r.gdf])
                             ELSE st.loaded,
                  parsed |-> IF r.parsed THEN st.parsed + 1 ELSE st.parsed,
                  notified |-> st.notified \o r.notified],
                 d, i + 1)

LoadAllLayers(ls, hp, d) ==
    LoadAllFrom([layers |-> ls, heap |-> hp, loaded |-> <<>>, parsed |-> 0,
                 notified |-> <<>>], d, 1)

LoadAll ==
    \E r \in {LoadAllLayers(layers, heap, disk)} :
    /\ parses + r.parsed <= MaxParses
    /\ layers' = r.layers
    /\ heap' = r.heap
    /\ parses' = parses + r.parsed
    /\ notified' = r.notified
    /\ ret' = [NoRet EXCEPT !.op = "load_all", !.map = r.loaded,
                            !.parsed = r.parsed]
    /\ UNCHANGED <<disk, root_path, documents, maps, is_connected,
                   last_scan, observers>>
    /\ UNCHANGED engineVars

\* a summary that counts every entry as loaded
GetSummary_CountAll ==
    [connected |-> is_connected, root_path |-> root_path,
     total_capas |-> Len(layers), total_documentos |-> Len(documents),
     total_mapas |-> Len(maps), capas_cargadas |-> Len(layers),
     last_scan |-> last_scan]

\* get_summary(): a read of the store, which changes nothing
GetSummary ==
    [connected |-> is_connected, root_path |-> root_path,
     total_capas |-> Len(layers), total_documentos |-> Len(documents),
     total_mapas |-> Len(maps),
     capas_cargadas |-> Cardinality({i \in 1..Len(layers) : layers[i].loaded}),
     last_scan |-> last_scan]

\* add_observer(callback)
AddObserver ==
    /\ Len(observers) < MaxObservers
    /\ observers' = Append(observers, Len(observers) + 1)
    /\ UNCHANGED <<disk, root_path, layers, documents, maps, is_connected,
                   last_scan, notified, heap, parses, ret>>
    /\ UNCHANGED engineVars

\* the environment deletes one file under the root, or writes one (a new
\* file, or new content for a file that is there), in place of whatever has
\* its name: a folder of the name of a file, a file of the name of a folder
DiskChange(U) ==
    /\ \/ \E f \in disk : disk' = disk \ {f}
       \/ \E f \in U \ disk :
             LET kept == {g \in disk : /\ g.path # f.path
                                        /\ g.path # f.folder
                                        /\ g.folder # f.path} IN
             /\ Cardinality(kept) < MaxFiles
             /\ disk' = kept \cup {f}
    /\ UNCHANGED <<root_path, layers, documents, maps, is_connected,
                   last_scan, observers, notified, heap, parses, ret>>
    /\ UNCHANGED engineVars

----------------------------------------------------------------------------
(* Identifiers of the script namespace *)
N_folium == <<"f", "o", "l", "i", "u", "m">>
N_layers == <<"l", "a", "y", "e", "r", "s">>
N_resultado == <<"r", "e", "s", "u", "l", "t", "a", "d", "o">>
N_result == <<"r", "e", "s", "u", "l", "t">>
N_output == <<"o", "u", "t", "p", "u", "t">>
N_mapa == <<"m", "a", "p", "a">>
N_map == <<"m", "a", "p">>
N_gdf == <<"g", "d", "f">>
N_df == <<"d", "f">>
N_m == <<"m">>
N_builtins == <<"_", "_", "b", "u", "i", "l", "t", "i", "n", "s", "_", "_">>
N_geopandas == <<"g", "e", "o", "p", "a", "n", "d", "a", "s">>
N_gpd == <<"g", "p", "d">>
N_pandas == <<"p", "a", "n", "d", "a", "s">>
N_pd == <<"p", "d">>
N_numpy == <<"n", "u", "m", "p", "y">>
N_np == <<"n", "p">>
N_MarkerCluster == <<"M", "a", "r", "k", "e", "r", "C", "l", "u", "s", "t", "e", "r">>
N_HeatMap == <<"H", "e", "a", "t", "M", "a", "p">>

----------------------------------------------------------------------------
(* validate_code: re.search(pattern, code, re.IGNORECASE) over the           *)
(* FORBIDDEN_PATTERNS, in the order of the list.  A pattern is the sequence  *)
(* of its elements: a literal character, \s+, \s* or .*                      *)

Lit(c) == [k |-> "lit", c |-> c]
WsPlus == [k |-> "ws+", c |-> ""]
WsStar == [k |-> "ws*", c |-> ""]
AnyStar == [k |-> "any*", c |-> ""]

FORBIDDEN_PATTERNS ==
    <<
      \* import\s+os
      <<Lit("i"), Lit("m"), Lit("p"), Lit("o"), Lit("r"), Lit("t"), WsPlus,
        Lit("o"), Lit("s")>>,
      \* import\s+subprocess
      <<Lit("i"), Lit("m"), Lit("p"), Lit("o"), Lit("r"), Lit("t"), WsPlus,
        Lit("s"), Lit("u"), Lit("b"), Lit("p"), Lit("r"), Lit("o"), Lit("c"),
        Lit("e"), Lit("s"), Lit("s")>>,
      \* import\s+sys
      <<Lit("i"), Lit("m"), Lit("p"), Lit("o"), Lit("r"), Lit("t"), WsPlus,
        Lit("s"), Lit("y"), Lit("s")>>,
      \* __import__
      <<Lit("_"), Lit("_"), Lit("i"), Lit("m"), Lit("p"), Lit("o"), Lit("r"),
        Lit("t"), Lit("_"), Lit("_")>>,
      \* eval\s*\(
      <<Lit("e"), Lit("v"), Lit("a"), Lit("l"), WsStar, Lit("(")>>,
      \* exec\s*\(
      <<Lit("e"), Lit("x"), Lit("e"), Lit("c"), WsStar, Lit("(")>>,
      \* open\s*\(
      <<Lit("o"), Lit("p"), Lit("e"), Lit("n"), WsStar, Lit("(")>>,
      \* file\s*\(
      <<Lit("f"), Lit("i"), Lit("l"), Lit("e"), WsStar, Lit("(")>>,
      \* input\s*\(
      <<Lit("i"), Lit("n"), Lit("p"), Lit("u"), Lit("t"), WsStar, Lit("(")>>,
      \* os\.
      <<Lit("o"), Lit("s"), Lit(".")>>,
      \* subprocess\.
      <<Lit("s"), Lit("u"), Lit("b"), Lit("p"), Lit("r"), Lit("o"), Lit("c"),
        Lit("e"), Lit("s"), Lit("s"), Lit(".")>>,
      \* shutil\.
      <<Lit("s"), Lit("h"), Lit("u"), Lit("t"), Lit("i"), Lit("l"), Lit(".")>>,
      \* pathlib\.Path.*unlink
      <<Lit("p"), Lit("a"), Lit("t"), Lit("h"), Lit("l"), Lit("i"), Lit("b"),
        Lit("."), Lit("P"), Lit("a"), Lit("t"), Lit("h"), AnyStar, Lit("u"),
        Lit("n"), Lit("l"), Lit("i"), Lit("n"), Lit("k")>>,
      \* \.remove\s*\(
      <<Lit("."), Lit("r"), Lit("e"), Lit("m"), Lit("o"), Lit("v"), Lit("e"),
        WsStar, Lit("(")>>,
      \* \.delete\s*\(
      <<Lit("."), Lit("d"), Lit("e"), Lit("l"), Lit("e"), Lit("t"), Lit("e"),
        WsStar, Lit("(")>>,
      \* \.rmdir\s*\(
      <<Lit("."), Lit("r"), Lit("m"), Lit("d"), Lit("i"), Lit("r"), WsStar,
        Lit("(")>>
    >>

UpperCase ==
    <<"A", "B", "C", "D", "E", "F", "G", "H", "I", "J", "K", "L", "M",
      "N", "O", "P", "Q", "R", "S", "T", "U", "V", "W", "X", "Y", "Z">>

LowerCase ==
    <<"a", "b", "c", "d", "e", "f", "g", "h", "i", "j", "k", "l", "m",
      "n", "o", "p", "q", "r", "s", "t", "u", "v", "w", "x", "y", "z">>

Digits == {"0", "1", "2", "3", "4", "5", "6", "7", "8", "9"}

UpperSet == {UpperCase[i] : i \in 1..Len(UpperCase)}

LowerSet == {LowerCase[i] : i \in 1..Len(LowerCase)}

\* the lower-case letter of each upper-case letter
LowerOf ==
    [c \in UpperSet |->
        LowerCase[CHOOSE i \in 1..Len(UpperCase) : UpperCase[i] = c]]

\* a search that compares the characters as they are
LowerChar_CaseSensitive(c) == c

\* the case folding of re.IGNORECASE
LowerChar(c) == IF c \in UpperSet THEN LowerOf[c] ELSE c

\* \s
IsSpace(c) == c \in {" ", "\t", "\n"}

\* whether the elements of pat from the i-th on match text at position j
RECURSIVE MatchHere(_, _, _, _)
MatchHere(pat, i, text, j) ==
    IF i > Len(pat) THEN TRUE
    ELSE CASE pat[i].k = "lit" ->
                /\ j <= Len(text)
                /\ LowerChar(text[j]) = LowerChar(pat[i].c)
                /\ MatchHere(pat, i + 1, text, j + 1)
           [] pat[i].k = "ws+" ->
                /\ j <= Len(text)
                /\ IsSpace(text[j])
                /\ \/ MatchHere(pat, i + 1, text, j + 1)
                   \/ MatchHere(pat, i, text, j + 1)
           [] pat[i].k = "ws*" ->
                \/ MatchHere(pat, i + 1, text, j)
                \/ /\ j <= Len(text)
                   /\ IsSpace(text[j])
                   /\ MatchHere(pat, i, text, j + 1)
           [] OTHER ->
                \/ MatchHere(pat, i + 1, text, j)
                \/ /\ j <= Len(text)
                   /\ text[j] # "\n"
                   /\ MatchHere(pat, i, text, j + 1)

\* re.search(pattern, code, re.IGNORECASE)
Search(pat, text) == \E j \in 1..(Len(text) + 1) : MatchHere(pat, 1, text, j)

\* validate_code(code): 0 when the code is valid, otherwise the position in
\* FORBIDDEN_PATTERNS of the pattern the error message names
ValidateCode(text) ==
    IF \E p \in 1..Len(FORBIDDEN_PATTERNS) : Search(FORBIDDEN_PATTERNS[p], text)
    THEN CHOOSE p \in 1..Len(FORBIDDEN_PATTERNS) :
            /\ Search(FORBIDDEN_PATTERNS[p], text)
            /\ \A q \in 1..(p - 1) : ~Search(FORBIDDEN_PATTERNS[q], text)
    ELSE 0

----------------------------------------------------------------------------
(* Scripts: a script is a sequence of statements, one per line; a statement  *)
(* is its text and what running it does                                      *)

Stmt(kind, text) == [kind |-> kind, text |-> text]

\* print(1)
S_print ==
    Stmt("print",
         <<"p", "r", "i", "n", "t", "(", "1", ")">>)

\* 1/0
S_div ==
    Stmt("div",
         <<"1", "/", "0">>)

\* m=folium.Map()
S_map_m ==
    Stmt("map_m",
         <<"m", "=", "f", "o", "l", "i", "u", "m", ".", "M", "a", "p", "(",
           ")">>)

\* mapa=folium.Map()
S_map_mapa ==
    Stmt("map_mapa",
         <<"m", "a", "p", "a", "=", "f", "o", "l", "i", "u", "m", ".", "M",
           "a", "p", "(", ")">>)

\* folium=1
S_rebind ==
    Stmt("rebind",
         <<"f", "o", "l", "i", "u", "m", "=", "1">>)

\* capas.clear()
S_clear ==
    Stmt("clear",
         <<"c", "a", "p", "a", "s", ".", "c", "l", "e", "a", "r", "(", ")">>)

\* mapa=type(m)()
S_type_m ==
    Stmt("type_m",
         <<"m", "a", "p", "a", "=", "t", "y", "p", "e", "(", "m", ")", "(",
           ")">>)

\* import os
S_import_os ==
    Stmt("import_os",
         <<"i", "m", "p", "o", "r", "t", " ", "o", "s">>)

\* OS.getcwd()
S_os_call ==
    Stmt("os_call",
         <<"O", "S", ".", "g", "e", "t", "c", "w", "d", "(", ")">>)

Stmts ==
    {S_print, S_div, S_map_m, S_map_mapa, S_rebind, S_clear, S_type_m,
     S_import_os, S_os_call}

Scripts == UNION {[1..n -> Stmts] : n \in 0..MaxLen}

\* the code of a script: its lines, each ended by a newline
RECURSIVE Text(_)
Text(script) ==
    IF Len(script) = 0 THEN <<>>
    ELSE Head(script).text \o <<"\n">> \o Text(Tail(script))

\* the codes execute() is called with: each script of the model with what
\* validate_code answers for its text (line 100)
Codes ==
    {[script |-> script, pattern |-> ValidateCode(Text(script))] :
        script \in Scripts}

----------------------------------------------------------------------------
(* CodeExecutionEngine.  A value of the namespace is a tag and an object   *)
(* id: the modules and classes of ALLOWED_MODULES and the dict of          *)
(* primitives are objects of their own tag; ("dict", e) is the dict        *)
(* self.layers of engine e, ("gdf", h) the GeoDataFrame heap[h], ("map",   *)
(* m) the m-th folium map constructed.                                     *)
(*                                                                         *)
(* A value of the attribute Map (of the folium module, or set on another   *)
(* object) is the sequence of the engines whose capture_map closures wrap  *)
(* the original class, outermost first: <<>> is the original class.        *)

Val(t, id) == [t |-> t, id |-> id]

None == Val("None", 0)

Bind(name, v) == [name |-> name, v |-> v]

ALLOWED_MODULES ==
    << Bind(N_geopandas, Val("geopandas", 0)),
       Bind(N_gpd, Val("geopandas", 0)),
       Bind(N_pandas, Val("pandas", 0)),
       Bind(N_pd, Val("pandas", 0)),
       Bind(N_numpy, Val("numpy", 0)),
       Bind(N_np, Val("numpy", 0)),
       Bind(N_folium, Val("folium", 0)),
       Bind(N_MarkerCluster, Val("MarkerCluster", 0)),
       Bind(N_HeatMap, Val("HeatMap", 0)) >>

\* re.sub(r'[^a-zA-Z0-9_]', '_', name)
SafeChars == UpperSet \cup LowerSet \cup Digits \cup {"_"}

Sanitize(name) ==
    [i \in 1..Len(name) |-> IF name[i] \in SafeChars THEN name[i] ELSE "_"]

\* lines 145-149: each layer as a variable of its own, in the order of the dict
RECURSIVE AddLayers(_, _, _)
AddLayers(ns, ls, i) ==
    IF i > Len(ls) THEN ns
    ELSE AddLayers(Put(ns, Bind(Sanitize(ls[i].name), Val("gdf", ls[i].gdf))),
                   ls, i + 1)

\* lines 112-149: exec_globals of engine e
ExecGlobals(e, ls) ==
    AddLayers(<<Bind(N_builtins, Val("builtins", 0))>> \o ALLOWED_MODULES
                  \o <<Bind(N_layers, Val("dict", e)), Bind(N_capas, Val("dict", e))>>,
              ls, 1)

\* the working state of one execute() call: the objects it can reach
\* (Map is folium.Map, stdout is sys.stdout) and its locals (ns is
\* exec_globals, buf the id of output_buffer and out its text, exc the
\* exception raised so far, "None" when none)
Frame(fmap, hp, es, lsts, nm, ns, so, buf) ==
    [Map |-> fmap, heap |-> hp, engines |-> es, lists |-> lsts, n_maps |-> nm,
     stdout |-> so, ns |-> ns, buf |-> buf, out |-> <<>>, stray |-> <<>>,
     exc |-> "None", ran |-> 0]

\* line 167, contextlib.redirect_stdout(output_buffer).__enter__: sys.stdout
\* becomes the buffer of the call (the caller keeps the stream it replaces)
RedirectEnter(st) == [st EXCEPT !.stdout = st.buf]

\* a redirection that is never undone
RedirectExit_Keep(st, old) == st

\* its __exit__, at the end of the with block however it is left: sys.stdout
\* becomes the stream that __enter__ replaced
RedirectExit(st, old) == [st EXCEPT !.stdout = old]

\* print(1): the text goes to what sys.stdout is at the time, the buffer of
\* this call or another stream (stray lists the streams that got text of
\* this call)
PrintLine(st) ==
    IF st.stdout = st.buf
    THEN [st EXCEPT !.out = Append(@, "1\n")]
    ELSE [st EXCEPT !.stray = Append(@, st.stdout)]

Raise(st, kind) == [st EXCEPT !.exc = kind]

\* obj.Map = ctor, for obj the folium module or a GeoDataFrame
SetMapAttr(st, obj, ctor) ==
    IF obj.t = "folium"
    THEN [st EXCEPT !.Map = ctor]
    ELSE [st EXCEPT !.heap[obj.id].hasMap = TRUE, !.heap[obj.id].Map = ctor]

\* whether obj.Map = ... can be done: not on an int
CanSetMapAttr(obj) == obj.t \in {"folium", "gdf"}

\* capture_map, called through the chain ctor of closures: the original
\* class makes the map m, then each closure, innermost first, appends m to
\* the generated_maps of its engine
RECURSIVE Captured(_, _, _, _)
Captured(lsts, es, ctor, m) ==
    IF ctor = <<>> THEN lsts
    ELSE LET inner == Captured(lsts, es, Tail(ctor), m)
             l == es[Head(ctor)].generated_maps
         IN  [inner EXCEPT ![l] = Append(@, m)]

\* var = folium.Map()
MakeMap(st, var) ==
    IF ~HasKey(st.ns, N_folium) THEN Raise(st, "NameError")
    ELSE LET f == Get(st.ns, N_folium).v IN
         IF f.t = "folium" \/ (f.t = "gdf" /\ st.heap[f.id].hasMap)
         THEN LET ctor == IF f.t = "folium" THEN st.Map ELSE st.heap[f.id].Map
                  m == st.n_maps + 1
              IN  [st EXCEPT !.n_maps = m,
                             !.lists = Captured(st.lists, st.engines, ctor, m),
                             !.ns = Put(st.ns, Bind(var, Val("map", m)))]
         ELSE Raise(st, "AttributeError")

\* capas.clear()
Clear(st) ==
    IF ~HasKey(st.ns, N_capas) THEN Raise(st, "NameError")
    ELSE LET c == Get(st.ns, N_capas).v IN
         IF c.t = "dict"
         THEN [st EXCEPT !.engines[c.id].layers = <<>>]
         ELSE Raise(st, "AttributeError")

\* mapa=type(m)(): a map made by the class of m, which is the class of the
\* library whatever folium.Map is at the time; m is bound to nothing but maps
TypeCall(st) ==
    IF ~HasKey(st.ns, N_m) THEN Raise(st, "NameError")
    ELSE LET m == st.n_maps + 1 IN
         [st EXCEPT !.n_maps = m,
                    !.ns = Put(st.ns, Bind(N_mapa, Val("map", m)))]

\* exec of one statement
RunStmt(st, stmt) ==
    LET s == [st EXCEPT !.ran = @ + 1] IN
    CASE stmt.kind = "print" -> PrintLine(s)
      [] stmt.kind = "div" -> Raise(s, "ZeroDivisionError")
      [] stmt.kind = "map_m" -> MakeMap(s, N_m)
      [] stmt.kind = "map_mapa" -> MakeMap(s, N_mapa)
      [] stmt.kind = "rebind" -> [s EXCEPT !.ns = Put(@, Bind(N_folium, Val("int", 1)))]
      [] stmt.kind = "clear" -> Clear(s)
      [] stmt.kind = "type_m" -> TypeCall(s)
      [] stmt.kind = "import_os" -> Raise(s, "ImportError")
      [] OTHER -> Raise(s, "NameError")

\* line 169, exec(code, exec_globals): the statements in order, up to the
\* first that raises
RECURSIVE Exec(_, _, _)
Exec(st, script, i) ==
    IF i > Len(script) \/ st.exc # "None" THEN st
    ELSE Exec(RunStmt(st, script[i]), script, i + 1)

\* lines 172-176: the first of the conventional names bound to a value
\* other than None
ResultNames == <<N_resultado, N_result, N_output, N_mapa, N_map, N_gdf, N_df>>

FindResult(ns) ==
    IF \E k \in 1..Len(ResultNames) :
          HasKey(ns, ResultNames[k]) /\ Get(ns, ResultNames[k]).v # None
    THEN Get(ns, ResultNames[
             CHOOSE k \in 1..Len(ResultNames) :
                /\ HasKey(ns, ResultNames[k]) /\ Get(ns, ResultNames[k]).v # None
                /\ \A j \in 1..(k - 1) :
                      ~(HasKey(ns, ResultNames[j]) /\ Get(ns, ResultNames[j]).v # None)]).v
    ELSE None

\* whether x occurs in the sequence s
InSeq(x, s) == \E i \in 1..Len(s) : s[i] = x

\* lines 179-181: the maps of the namespace that generated_maps lacks are
\* appended to it, in the order of the namespace
RECURSIVE CollectMaps(_, _, _)
CollectMaps(found, ns, i) ==
    IF i > Len(ns) THEN found
    ELSE IF ns[i].v.t = "map" /\ ~InSeq(ns[i].v.id, found)
         THEN CollectMaps(Append(found, ns[i].v.id), ns, i + 1)
         ELSE CollectMaps(found, ns, i + 1)

\* isinstance(var_value, folium.Map) raises TypeError unless folium.Map is a
\* class, and the namespace is never empty
ScanRaises(st) == Len(st.ns) > 0 /\ st.Map # <<>>

\* type(v).__name__
TypeName(v) ==
    CASE v.t = "gdf" -> "GeoDataFrame"
      [] v.t = "map" -> "Map"
      [] v.t = "None" -> "NoneType"
      [] v.t \in {"dict", "builtins"} -> "dict"
      [] v.t = "int" -> "int"
      [] v.t \in {"MarkerCluster", "HeatMap"} -> "type"
      [] OTHER -> "module"

\* lines 190-191: the names of the namespace that neither start with an
\* underscore nor are keys of ALLOWED_MODULES, with the type of their value
RECURSIVE Variables(_, _)
Variables(ns, i) ==
    IF i > Len(ns) THEN <<>>
    ELSE IF ns[i].name[1] # "_" /\ ~HasKey(ALLOWED_MODULES, ns[i].name)
         THEN <<[name |-> ns[i].name, type |-> TypeName(ns[i].v)]>>
                  \o Variables(ns, i + 1)
         ELSE Variables(ns, i + 1)

\* the error of a result: kind "None" is no error, kind "forbidden" the
\* message of validate_code, which names the pattern at position pattern;
\* any other kind is type(e).__name__ of the exception caught
Error(kind, pattern) == [kind |-> kind, pattern |-> pattern]

\* what an execute() call gave its caller.  returned says whether it returned
\* a dict (raised is the exception that left it otherwise); maps is the id of
\* the list object in the dict, 0 for a list made for this dict alone.  code,
\* engine, built, datasets, patched and ran record the call: its script, its
\* engine, whether exec_globals was built and from which items of
\* self.layers (lines 145-148), whether Map was replaced, and how many
\* statements were started.
ExecRet(e, script) ==
    [op |-> "execute", engine |-> e,
     code |-> [i \in 1..Len(script) |-> script[i].kind],
     returned |-> TRUE, raised |-> "None",
     success |-> FALSE, error |-> Error("None", 0), traceback |-> FALSE,
     output |-> <<>>, result |-> None, maps |-> 0, variables |-> <<>>,
     built |-> FALSE, datasets |-> <<>>, patched |-> FALSE, ran |-> 0]

NoExec == [ExecRet(0, <<>>) EXCEPT !.op = "none"]

\* lines 101-109: the result of a code that validate_code refuses
Rejected(e, script, pattern) ==
    [ExecRet(e, script) EXCEPT !.error = Error("forbidden", pattern)]

\* lines 183-192: the result of a run that ended normally; gm is the list
\* self.generated_maps
Succeeded(base, st, gm) ==
    [base EXCEPT !.success = TRUE, !.output = st.out,
                 !.result = FindResult(st.ns), !.maps = gm,
                 !.variables = Variables(st.ns, 1)]

\* a failure result that drops what the script printed
Failed_NoOutput(base, st) ==
    [base EXCEPT !.error = Error(st.exc, 0), !.traceback = TRUE]

\* lines 194-203: the result of a run that raised
Failed(base, st) ==
    [base EXCEPT !.error = Error(st.exc, 0), !.traceback = TRUE,
                 !.output = st.out]

\* execute(code) of engine e (lines 89-206), as a function of the objects it
\* can reach: what it leaves of them and what the caller gets
Execute(e, code, fmap, hp, es, lsts, nm, so) ==
    LET pattern == code.pattern
        script == code.script
    IN
    IF pattern # 0
    THEN [Map |-> fmap, heap |-> hp, engines |-> es, lists |-> lsts, n_maps |-> nm,
          stdout |-> so, ret |-> Rejected(e, script, pattern)]
    ELSE
    LET ns0 == ExecGlobals(e, es[e].layers)
        gm == Len(lsts) + 1
        original_folium_map == fmap
        st0 == Frame(fmap, hp, [es EXCEPT ![e].generated_maps = gm],
                     Append(lsts, <<>>), nm, ns0, so, e)
        \* line 164
        st1 == SetMapAttr(st0, Get(ns0, N_folium).v, <<e>> \o original_folium_map)
        \* lines 167-169
        st2 == RedirectExit(Exec(RedirectEnter(st1), script, 1), so)
        \* lines 171-181
        st3 == IF st2.exc # "None" THEN st2
               ELSE IF ScanRaises(st2) THEN Raise(st2, "TypeError")
               ELSE [st2 EXCEPT !.lists[gm] = CollectMaps(@, st2.ns, 1)]
        \* lines 204-206
        missing == ~HasKey(st3.ns, N_folium)
        target == IF missing THEN None ELSE Get(st3.ns, N_folium).v
        escaped == IF missing THEN "KeyError"
                   ELSE IF ~CanSetMapAttr(target) THEN "AttributeError"
                   ELSE "None"
        st4 == IF escaped = "None"
               THEN SetMapAttr(st3, target, original_folium_map)
               ELSE st3
        base == [ExecRet(e, script) EXCEPT !.built = TRUE,
                                           !.datasets = es[e].layers,
                                           !.patched = TRUE, !.ran = st2.ran]
    IN  [Map |-> st4.Map, heap |-> st4.heap, engines |-> st4.engines,
         lists |-> st4.lists, n_maps |-> st4.n_maps, stdout |-> st4.stdout,
         ret |->
            IF escaped # "None"
            THEN [base EXCEPT !.returned = FALSE, !.raised = escaped]
            ELSE IF st3.exc = "None"
            THEN Succeeded(base, st3, gm)
            ELSE Failed(base, st3)]

\* CodeExecutionEngine.__init__(layers)
NewEngine(ls, l) == [layers |-> ls, generated_maps |-> l]

\* execute(code) on an engine made earlier
ExecuteAgain ==
    /\ calls < MaxCalls
    /\ \E e \in 1..Len(engines), code \in Codes :
      \E r \in {Execute(e, code, folium_Map, heap, engines, lists, n_maps,
                        sys_stdout)} :
        /\ calls' = calls + 1
        /\ sys_stdout' = r.stdout
        /\ folium_Map' = r.Map
        /\ heap' = r.heap
        /\ engines' = r.engines
        /\ lists' = r.lists
        /\ n_maps' = r.n_maps
        /\ exec_ret' = r.ret
        /\ UNCHANGED <<disk, root_path, layers, documents, maps, is_connected,
                       last_scan, observers, notified, parses, ret, threads>>

\* execute_and_display_code(code, store) of components/chat.py, lines
\* 337-349: every layer of the store is loaded, an engine is made over those
\* that loaded, and the engine executes the code
ExecuteAndDisplay ==
    /\ calls < MaxCalls
    /\ \E l \in {LoadAllLayers(layers, heap, disk)} :
        /\ parses + l.parsed <= MaxParses
        /\ \E code \in Codes :
          \E r \in {Execute(Len(engines) + 1, code, folium_Map, l.heap,
                          Append(engines, NewEngine(l.loaded, Len(lists) + 1)),
                          Append(lists, <<>>), n_maps, sys_stdout)} :
            /\ calls' = calls + 1
            /\ sys_stdout' = r.stdout
            /\ layers' = l.layers
            /\ parses' = parses + l.parsed
            /\ notified' = l.notified
            /\ folium_Map' = r.Map
            /\ heap' = r.heap
            /\ engines' = r.engines
            /\ lists' = r.lists
            /\ n_maps' = r.n_maps
            /\ exec_ret' = r.ret
            /\ UNCHANGED <<disk, root_path, documents, maps, is_connected,
                           last_scan, observers, ret, threads>>

\* a caller that has not called yet.  pc is its position in
\* execute_and_display_code and execute(); e, script, ns, out, exc, ran are
\* the engine, the code, exec_globals, the text of output_buffer, the
\* exception raised and the statements started; original is
\* original_folium_map, old the stream that redirect_stdout replaced, gm the
\* list self.generated_maps; made are the maps its script constructed,
\* overlap says whether another call was under way when it began, and ret
\* is what the call gave the caller
IdleThread ==
    [pc |-> "idle", e |-> 0, script |-> <<>>, ns |-> <<>>, out |-> <<>>,
     exc |-> "None", ran |-> 0, original |-> <<>>, old |-> 0, gm |-> 0,
     made |-> {}, overlap |-> FALSE, ret |-> NoExec]

\* before any engine is made: folium.Map is the class of the library
EngineInit ==
    /\ threads = [t \in 1..MaxThreads |-> IdleThread]
    /\ folium_Map = <<>>
    /\ engines = <<>>
    /\ lists = <<>>
    /\ n_maps = 0
    /\ calls = 0
    /\ sys_stdout = 0
    /\ exec_ret = NoExec

\* GeoDataStore.__init__, over any content of the directory drawn from U
StoreInit(U) ==
    /\ disk \in DiskStates(U)
    /\ root_path = "None"
    /\ layers = <<>>
    /\ documents = <<>>
    /\ maps = <<>>
    /\ is_connected = FALSE
    /\ last_scan = 0
    /\ observers = <<>>
    /\ notified = <<>>
    /\ heap = <<>>
    /\ parses = 0
    /\ ret = NoRet
    /\ EngineInit

\* the catalog under loads
StoreNext ==
    \/ Connect
    \/ Load
    \/ LoadAll
    \/ AddObserver
    \/ DiskChange(LoadUniverse)

SpecStore == StoreInit(LoadUniverse) /\ [][StoreNext]_vars

\* the catalog under scans of a changing directory
ScanNext ==
    \/ Connect
    \/ DiskChange(ScanUniverse)

SpecScan == StoreInit(ScanUniverse) /\ [][ScanNext]_vars

\* the directory contents the executions range over: a plain layer, one
\* whose name becomes that of the first once sanitized, one named as the
\* mapping library and one named as a result variable
EngineUniverse ==
    { File("capas/a_b.shp", "capas", N_a_b, ".shp", TRUE),
      File("capas/a-b.shp", "capas", N_a_dash_b, ".shp", TRUE),
      File("capas/folium.gpkg", "capas", N_folium, ".gpkg", TRUE),
      File("capas/df.gpkg", "capas", N_df, ".gpkg", TRUE) }

\* the engine over the layers of a catalog
EngineNext ==
    \/ \E w \in Walks(disk) : ConnectOk("R", w, 1)
    \/ ExecuteAndDisplay
    \/ ExecuteAgain

SpecEngine == StoreInit(EngineUniverse) /\ [][EngineNext]_vars

\* the codes of the calls that overlap: the scripts of one statement at most
OverlapCodes == {c \in Codes : Len(c.script) <= 1}

\* the working state of the call of thread th as it takes its next step
ThreadFrame(th) ==
    [Frame(folium_Map, heap, engines, lists, n_maps, th.ns, sys_stdout, th.e)
        EXCEPT !.out = th.out, !.exc = th.exc, !.ran = th.ran]

\* the step left the objects that the calls share as they are in st
Shared(st) ==
    /\ folium_Map' = st.Map
    /\ heap' = st.heap
    /\ engines' = st.engines
    /\ lists' = st.lists
    /\ n_maps' = st.n_maps
    /\ sys_stdout' = st.stdout

\* the text that the step of another call put in the output_buffer of th
Strayed(th, st) ==
    [j \in 1..Cardinality({i \in 1..Len(st.stray) : st.stray[i] = th.e}) |-> "1\n"]

\* chat.py lines 337-345 and execute() lines 100-155, by caller t: the layers
\* are loaded, an engine is made over them, the code is validated and either
\* refused or given its exec_globals, a new list of maps and the folium.Map
\* of the moment as original_folium_map
T_Begin(t) ==
    /\ threads[t].pc = "idle"
    /\ calls < MaxCalls
    /\ \E l \in {LoadAllLayers(layers, heap, disk)} :
        /\ parses + l.parsed <= MaxParses
        /\ \E code \in OverlapCodes :
            LET e == Len(engines) + 1
                busy == \E u \in 1..MaxThreads : threads[u].pc \notin {"idle", "done"}
                th == [IdleThread EXCEPT !.e = e, !.script = code.script,
                                         !.overlap = busy]
            IN  /\ calls' = calls + 1
                /\ layers' = l.layers
                /\ heap' = l.heap
                /\ parses' = parses + l.parsed
                /\ notified' = l.notified
                /\ IF code.pattern # 0
                   THEN /\ engines' = Append(engines, NewEngine(l.loaded, Len(lists) + 1))
                        /\ lists' = Append(lists, <<>>)
                        /\ exec_ret' = Rejected(e, code.script, code.pattern)
                        /\ threads' = [threads EXCEPT ![t] =
                              [th EXCEPT !.pc = "done", !.ret = exec_ret']]
                   ELSE /\ engines' = Append(engines, NewEngine(l.loaded, Len(lists) + 2))
                        /\ lists' = lists \o << <<>>, <<>> >>
                        /\ exec_ret' = exec_ret
                        /\ threads' = [threads EXCEPT ![t] =
                              [th EXCEPT !.pc = "install",
                                         !.ns = ExecGlobals(e, l.loaded),
                                         !.original = folium_Map,
                                         !.gm = Len(lists) + 2]]
                /\ UNCHANGED <<disk, root_path, documents, maps, is_connected,
                               last_scan, observers, ret, folium_Map, n_maps,
                               sys_stdout>>

\* lines 164 and 167 (__enter__): capture_map is installed and sys.stdout
\* becomes output_buffer
T_Install(t) ==
    LET th == threads[t] IN
    /\ th.pc = "install"
    /\ \E st \in {RedirectEnter(SetMapAttr(ThreadFrame(th), Get(th.ns, N_folium).v,
                                            <<th.e>> \o th.original))} :
          /\ Shared(st)
          /\ threads' = [threads EXCEPT ![t] = [th EXCEPT !.pc = "run",
                                                          !.old = sys_stdout]]
    /\ UNCHANGED <<storeVars, calls, exec_ret>>

\* line 169: the next statement of the script
T_Stmt(t) ==
    LET th == threads[t] IN
    /\ th.pc = "run"
    /\ th.exc = "None"
    /\ th.ran < Len(th.script)
    /\ \E st \in {RunStmt(ThreadFrame(th), th.script[th.ran + 1])} :
          /\ Shared(st)
          /\ threads' = [u \in 1..MaxThreads |->
                IF u = t
                THEN [th EXCEPT !.ns = st.ns, !.out = st.out, !.exc = st.exc,
                                !.ran = st.ran,
                                !.made = @ \cup ((n_maps + 1)..st.n_maps)]
                ELSE [threads[u] EXCEPT !.out = @ \o Strayed(threads[u], st)]]
    /\ UNCHANGED <<storeVars, calls, exec_ret>>

\* lines 167 (__exit__) and 171-203: the script is over or has raised;
\* sys.stdout becomes the stream that was replaced and the result is built
T_Leave(t) ==
    LET th == threads[t] IN
    /\ th.pc = "run"
    /\ th.exc # "None" \/ th.ran = Len(th.script)
    /\ \E st2 \in {RedirectExit(ThreadFrame(th), th.old)} :
       \E st3 \in {IF st2.exc # "None" THEN st2
                    ELSE IF ScanRaises(st2) THEN Raise(st2, "TypeError")
                    ELSE [st2 EXCEPT !.lists[th.gm] = CollectMaps(@, st2.ns, 1)]} :
          LET base == [ExecRet(th.e, th.script) EXCEPT
                          !.built = TRUE, !.datasets = engines[th.e].layers,
                          !.patched = TRUE, !.ran = th.ran]
          IN  /\ Shared(st3)
              /\ threads' = [threads EXCEPT ![t] =
                    [th EXCEPT !.pc = "finally", !.exc = st3.exc,
                               !.ret = IF st3.exc = "None"
                                       THEN Succeeded(base, st3, th.gm)
                                       ELSE Failed(base, st3)]]
    /\ UNCHANGED <<storeVars, calls, exec_ret>>

\* lines 204-206: folium.Map of what exec_globals binds folium to becomes
\* original_folium_map, and the call returns (or the assignment raises)
T_Finally(t) ==
    LET th == threads[t]
        missing == ~HasKey(th.ns, N_folium)
        target == IF missing THEN None ELSE Get(th.ns, N_folium).v
        escaped == IF missing THEN "KeyError"
                   ELSE IF ~CanSetMapAttr(target) THEN "AttributeError"
                   ELSE "None"
    IN
    /\ th.pc = "finally"
    /\ \E st \in {IF escaped = "None"
                   THEN SetMapAttr(ThreadFrame(th), target, th.original)
                   ELSE ThreadFrame(th)} :
          /\ Shared(st)
          /\ exec_ret' = IF escaped = "None" THEN th.ret
                         ELSE [th.ret EXCEPT !.returned = FALSE, !.raised = escaped,
                                             !.success = FALSE,
                                             !.error = Error("None", 0),
                                             !.traceback = FALSE, !.output = <<>>,
                                             !.result = None, !.maps = 0,
                                             !.variables = <<>>]
          /\ threads' = [threads EXCEPT ![t] = [th EXCEPT !.pc = "done",
                                                          !.ret = exec_ret']]
    /\ UNCHANGED <<storeVars, calls>>

\* execute() calls of callers that do not wait for each other
OverlapNext ==
    \E t \in 1..MaxThreads :
        \/ T_Begin(t)
        \/ T_Install(t)
        \/ T_Stmt(t)
        \/ T_Leave(t)
        \/ T_Finally(t)

SpecOverlap == StoreInit({}) /\ [][OverlapNext]_vars

\* the directory contents under an engine that outlives scans and loads
SnapshotUniverse == {File("capas/r.shp", "capas", N_r, ".shp", TRUE)}

\* engines over a catalog that is scanned and loaded between their calls
SnapshotNext ==
    \/ \E w \in Walks(disk) : ConnectOk("R", w, 1)
    \/ LoadOf(N_r)
    \/ ExecuteAndDisplay
    \/ ExecuteAgain

SpecSnapshot == StoreInit(SnapshotUniverse) /\ [][SnapshotNext]_vars

----------------------------------------------------------------------------
(* Properties of the engine, stated of SpecEngine.  exec_ret.code is        *)
(* the script of the last execute() call, statement by statement.           *)

\* the script holds a statement that a deny pattern is written against
Denied(code) == \E i \in 1..Len(code) : code[i] \in {"import_os", "os_call"}

\* the position in FORBIDDEN_PATTERNS of the first pattern the script matches:
\* import\s+os is the 1st, os\. the 10th
ExpectedPattern(code) ==
    IF \E i \in 1..Len(code) : code[i] = "import_os" THEN 1 ELSE 10

\* the step is an execute() call
ExecuteStep == calls' = calls + 1

\* C1: after any execute() call, whatever its outcome and whatever the script
\* did, the Map constructor of the folium module is the original class again.
C1_ConstructorRestored ==
    exec_ret.op = "execute" => folium_Map = <<>>

\* C2 (state): a call on a script that matches a deny pattern returns
\* success=False with the error naming the first pattern matched and with
\* empty output; no statement was run, exec_globals was not built and
\* folium.Map was not replaced.
C2_Rejected ==
    (exec_ret.op = "execute" /\ Denied(exec_ret.code)) =>
        /\ exec_ret.returned
        /\ ~exec_ret.success
        /\ exec_ret.error = Error("forbidden", ExpectedPattern(exec_ret.code))
        /\ ~exec_ret.traceback
        /\ exec_ret.output = <<>>
        /\ exec_ret.result = None
        /\ exec_ret.maps = 0
        /\ exec_ret.ran = 0
        /\ ~exec_ret.built
        /\ ~exec_ret.patched

\* C2 (step): such a call leaves folium.Map, the maps made, the lists of
\* generated maps and the engine as they were (a new engine as it was made).
C2_Untouched ==
    (ExecuteStep /\ Denied(exec_ret'.code)) =>
        LET e == exec_ret'.engine IN
        /\ folium_Map' = folium_Map
        /\ n_maps' = n_maps
        /\ IF e <= Len(engines)
           THEN engines' = engines /\ lists' = lists /\ heap' = heap
           ELSE /\ lists' = Append(lists, <<>>)
                /\ engines' = Append(engines,
                       NewEngine(LoadAllLayers(layers, heap, disk).loaded,
                                 Len(lists) + 1))

\* C2: execute() on a script whose text matches a deny pattern returns the
\* policy-violation result and never runs the script, never builds the
\* namespace and never patches the map constructor.
C2_DeniedScriptIsRejected == []C2_Rejected /\ [][C2_Untouched]_vars

C2_Witness ==
    /\ exec_ret.op = "execute"
    /\ exec_ret.code = <<"print", "os_call">>
    /\ exec_ret.error = Error("forbidden", 10)
    /\ exec_ret.output = <<>>
    /\ exec_ret.ran = 0

\* C3: execute() on a script that prints and then raises (k - 1 prints, then
\* a division by zero, then anything that no deny pattern matches) returns
\* success=False with the kind and the trace of the exception raised and with
\* output exactly the text of the k - 1 prints.
C3_OutputBeforeRaise ==
    \A k \in 1..Len(exec_ret.code) :
        (/\ exec_ret.op = "execute"
         /\ ~Denied(exec_ret.code)
         /\ exec_ret.code[k] = "div"
         /\ \A j \in 1..(k - 1) : exec_ret.code[j] = "print") =>
            /\ exec_ret.returned
            /\ ~exec_ret.success
            /\ exec_ret.error = Error("ZeroDivisionError", 0)
            /\ exec_ret.traceback
            /\ exec_ret.output = [j \in 1..(k - 1) |-> "1\n"]
            /\ exec_ret.ran = k

C3_Witness ==
    /\ exec_ret.op = "execute"
    /\ exec_ret.code = <<"print", "div">>
    /\ ~exec_ret.success
    /\ exec_ret.error.kind = "ZeroDivisionError"
    /\ exec_ret.output = <<"1\n">>

\* C4: execute() on a script that constructs two maps and binds only one of
\* them to the reserved name mapa returns success=True with that map as the
\* result and with both maps, in the order of construction, as maps.
C4_TwoMapsCaptured ==
    (/\ exec_ret.op = "execute"
     /\ exec_ret.code \in {<<"map_m", "map_mapa">>, <<"map_mapa", "map_m">>}) =>
        /\ exec_ret.returned
        /\ exec_ret.success
        /\ exec_ret.result =
              Val("map", IF exec_ret.code[1] = "map_mapa"
                         THEN n_maps - 1 ELSE n_maps)
        /\ exec_ret.maps # 0
        /\ lists[exec_ret.maps] = <<n_maps - 1, n_maps>>

\* C5: every execute() call returns a result to its caller; no exception
\* leaves it, whatever the script bound in its namespace.
C5_AlwaysReturns ==
    exec_ret.op = "execute" => exec_ret.returned /\ exec_ret.raised = "None"

\* C6: an execute() call changes nothing outside the namespace of the script:
\* the name -> handle dict of the engine is the one it was given, every
\* GeoDataFrame is as it was (as read, if the call loaded it) and folium.Map
\* is what it was.
C6_NothingOutsideChanges ==
    [][ExecuteStep =>
          LET e == exec_ret'.engine
              given == IF e <= Len(engines) THEN engines[e].layers
                       ELSE LoadAllLayers(layers, heap, disk).loaded
          IN  /\ engines'[e].layers = given
              /\ \A h \in 1..Len(heap') :
                    heap'[h] = IF h <= Len(heap) THEN heap[h]
                               ELSE NewGdf(heap'[h].path)
              /\ folium_Map' = folium_Map]_vars

\* the three outcomes of a call, read from what the caller got
IsRejected(r) ==
    r.returned /\ ~r.success /\ r.error.kind = "forbidden" /\ ~r.traceback
IsSucceeded(r) ==
    r.returned /\ r.success /\ r.error.kind = "None"
IsFailed(r) ==
    r.returned /\ ~r.success /\ r.error.kind \notin {"None", "forbidden"}
               /\ r.traceback

\* C17: every execute() call ends in exactly one of Rejected, Succeeded and
\* Failed; it is Rejected exactly when validation refuses the script, and
\* then no statement was started; otherwise each statement of the script is
\* started at most once, in order, after validation let the script through.
C17_OneTerminalOutcome ==
    exec_ret.op = "execute" =>
        /\ \/ IsRejected(exec_ret) /\ ~IsSucceeded(exec_ret) /\ ~IsFailed(exec_ret)
           \/ ~IsRejected(exec_ret) /\ IsSucceeded(exec_ret) /\ ~IsFailed(exec_ret)
           \/ ~IsRejected(exec_ret) /\ ~IsSucceeded(exec_ret) /\ IsFailed(exec_ret)
        /\ IsRejected(exec_ret) <=> Denied(exec_ret.code)
        /\ Denied(exec_ret.code) => exec_ret.ran = 0
        /\ exec_ret.ran <= Len(exec_ret.code)

\* the statements that construct a map
MapKinds == {"map_m", "map_mapa"}

\* the last call ran a script of prints and map constructions only, which
\* raises nothing: print is the builtin, and folium.Map is callable whether
\* folium is the module or a dataset of that name (line 164 sets it)
CompletesNormally ==
    /\ exec_ret.op = "execute"
    /\ \A i \in 1..Len(exec_ret.code) : exec_ret.code[i] \in {"print"} \cup MapKinds

\* the number of statements of the script after the i-th, or in all for
\* i = 0, whose kind is in K
After(code, i, K) == Cardinality({j \in (i + 1)..Len(code) : code[j] \in K})

\* the value that the loop of lines 145-148 leaves under the name n, for
\* the datasets ds: the handle of the last dataset whose sanitized name is n,
\* None when there is none
DatasetAs(ds, n) ==
    LET named == {i \in 1..Len(ds) : Sanitize(ds[i].name) = n} IN
    IF named = {} THEN None
    ELSE Val("gdf", ds[CHOOSE i \in named : \A j \in named : j <= i].gdf)

\* C18: execute() on a script that completes without raising returns
\* success=True and no error, with output the text of every print, in order,
\* and with result the value of the first of resultado, result, output, mapa,
\* map, gdf, df that the namespace binds to a value other than None: here the
\* map last bound to mapa when the script binds it, and otherwise the first
\* of these names that a dataset has (None when none has).
C18_NormalCompletion ==
    CompletesNormally =>
        LET code == exec_ret.code
            bound == {i \in 1..Len(code) : code[i] = "map_mapa"}
            ds == engines[exec_ret.engine].layers
            given == {k \in 1..Len(ResultNames) : DatasetAs(ds, ResultNames[k]) # None}
        IN  /\ exec_ret.returned
            /\ exec_ret.success
            /\ exec_ret.error = Error("None", 0)
            /\ exec_ret.output = [j \in 1..After(code, 0, {"print"}) |-> "1\n"]
            /\ exec_ret.result =
                  IF bound # {}
                  THEN LET last == CHOOSE i \in bound : \A j \in bound : j <= i
                       IN  Val("map", n_maps - After(code, last, MapKinds))
                  ELSE IF given # {}
                  THEN DatasetAs(ds, ResultNames[CHOOSE k \in given :
                                                    \A j \in given : k <= j])
                  ELSE None

\* the statements that make a map: through folium.Map or through type(m)
Makers == MapKinds \cup {"type_m"}

\* the maps of the last call are numbered as they were made, up to n_maps:
\* the ids, in order, of those made by the statements from the i-th on whose
\* kind is in K
RECURSIVE MadeBy(_, _, _)
MadeBy(code, i, K) ==
    IF i > Len(code) THEN <<>>
    ELSE IF code[i] \in K
         THEN <<n_maps - After(code, i, Makers)>> \o MadeBy(code, i + 1, K)
         ELSE MadeBy(code, i + 1, K)

\* the last call ran a script that completes and leaves in mapa a map that
\* folium.Map did not make: prints and map constructions, with a type(m)()
\* after an m=folium.Map() as the last statement that binds mapa
LeavesUnrecordedMap ==
    LET code == exec_ret.code
        binds == {i \in 1..Len(code) : code[i] \in {"map_mapa", "type_m"}}
    IN  /\ exec_ret.op = "execute"
        /\ \A i \in 1..Len(code) : code[i] \in {"print"} \cup Makers
        /\ \A i \in 1..Len(code) :
              code[i] = "type_m" => \E j \in 1..(i - 1) : code[j] = "map_m"
        /\ binds # {}
        /\ \A i \in binds : (\A j \in binds : j <= i) => code[i] = "type_m"

\* C19: when such a script has completed, the maps returned are the maps
\* that folium.Map made, in the order they were made, followed by the map
\* that mapa is bound to, and no map is there twice.
C19_UnrecordedMapAppended ==
    LeavesUnrecordedMap =>
        LET code == exec_ret.code
            last == CHOOSE i \in 1..Len(code) :
                       /\ code[i] = "type_m"
                       /\ \A j \in (i + 1)..Len(code) : code[j] # "type_m"
        IN  /\ exec_ret.returned
            /\ exec_ret.maps # 0
            /\ lists[exec_ret.maps] =
                  MadeBy(code, 1, MapKinds) \o MadeBy(code, last, {"type_m"})
            /\ \A i, j \in 1..Len(lists[exec_ret.maps]) :
                  lists[exec_ret.maps][i] = lists[exec_ret.maps][j] => i = j

\* C20: the namespace that execute() builds for a script binds, for every
\* dataset (name, handle) of the engine, the sanitized name to that handle,
\* whatever the names of the other datasets are.  (A script without
\* capas.clear() leaves the datasets of the engine as the call found them.)
C20_EachDatasetBound ==
    (/\ exec_ret.op = "execute"
     /\ exec_ret.built
     /\ \A i \in 1..Len(exec_ret.code) : exec_ret.code[i] # "clear") =>
        LET e == exec_ret.engine
            ns == ExecGlobals(e, engines[e].layers)
        IN  \A i \in 1..Len(engines[e].layers) :
               LET d == engines[e].layers[i] IN
               /\ HasKey(ns, Sanitize(d.name))
               /\ Get(ns, Sanitize(d.name)).v = Val("gdf", d.gdf)

\* C21: the namespace that execute() builds binds capas and layers to one
\* and the same dict, that of the engine, whose items are the datasets; it
\* binds each name of ALLOWED_MODULES to its library; and __builtins__ is
\* the dict of the primitives enumerated at lines 112-139.  (A script
\* without capas.clear() leaves the datasets of the engine as the call found
\* them.)
C21_AliasesAndLibraries ==
    (/\ exec_ret.op = "execute"
     /\ exec_ret.built
     /\ \A i \in 1..Len(exec_ret.code) : exec_ret.code[i] # "clear") =>
        LET e == exec_ret.engine
            ns == ExecGlobals(e, engines[e].layers)
        IN  /\ Get(ns, N_capas).v = Val("dict", e)
            /\ Get(ns, N_layers).v = Val("dict", e)
            /\ \A i \in 1..Len(ALLOWED_MODULES) :
                  Get(ns, ALLOWED_MODULES[i].name).v = ALLOWED_MODULES[i].v
            /\ Get(ns, N_builtins).v = Val("builtins", 0)

\* C26: the interception goes to the folium module and is taken back from
\* it, whatever the namespace binds folium to: after a call that built its
\* namespace folium.Map is the class of the library, no GeoDataFrame has
\* been given a Map attribute, and the call was not left by an exception of
\* the restore.
C26_InstalledOnTheLibrary ==
    (exec_ret.op = "execute" /\ exec_ret.built) =>
        /\ folium_Map = <<>>
        /\ \A h \in 1..Len(heap) : ~heap[h].hasMap
        /\ exec_ret.raised \notin {"AttributeError", "KeyError"}

\* C30 (step): an execute() call leaves sys.stdout what it was, and the
\* output of the result it returns is the text of the prints the script ran,
\* in order, and nothing else.
C30_Redirected ==
    ExecuteStep =>
        /\ sys_stdout' = sys_stdout
        /\ exec_ret'.returned =>
              exec_ret'.output =
                 [j \in 1..Cardinality({i \in 1..exec_ret'.ran :
                                           exec_ret'.code[i] = "print"}) |-> "1\n"]

\* C30: the redirection of sys.stdout lasts for the run of the script only:
\* between calls sys.stdout is the stream of the process, whatever the
\* outcome of the calls made, and the output of a result is the text that
\* its script printed.
C30_StdoutRestored == [](sys_stdout = 0) /\ [][C30_Redirected]_vars

\* a second call, whose script printed and then raised, has returned
C30_Witness ==
    /\ exec_ret.op = "execute"
    /\ calls = 2
    /\ exec_ret.code = <<"print", "div">>
    /\ exec_ret.output = <<"1\n">>
    /\ sys_stdout = 0

\* C29: when the script binds none of resultado, result, output, mapa, map,
\* gdf and df (of the statements of the model, when it has neither
\* mapa=folium.Map() nor mapa=type(m)()), the result of the call is None,
\* whatever the names of the datasets are.
C29_DatasetIsNoResult ==
    (/\ exec_ret.op = "execute"
     /\ exec_ret.returned
     /\ \A i \in 1..Len(exec_ret.code) :
           exec_ret.code[i] \notin {"map_mapa", "type_m"}) =>
        exec_ret.result = None

\* C22 (step): what a call returns is made by that call: the output is the
\* text its script printed, the result is None or a map that its script
\* made, the maps are maps that its script made; and the list of maps of the
\* result returned before it is what it was.
C22_MadeByTheCall ==
    ExecuteStep =>
        /\ exec_ret'.returned =>
              /\ \A j \in 1..Len(exec_ret'.output) : exec_ret'.output[j] = "1\n"
              /\ Len(exec_ret'.output) <= After(exec_ret'.code, 0, {"print"})
              /\ \/ exec_ret'.result = None
                 \/ /\ exec_ret'.result.t = "map"
                    /\ exec_ret'.result.id \in (n_maps + 1)..n_maps'
              /\ exec_ret'.maps # 0 =>
                    /\ exec_ret'.maps > Len(lists)
                    /\ \A i \in 1..Len(lists'[exec_ret'.maps]) :
                          lists'[exec_ret'.maps][i] \in (n_maps + 1)..n_maps'
        /\ (exec_ret.op = "execute" /\ exec_ret.returned /\ exec_ret.maps # 0) =>
              lists'[exec_ret.maps] = lists[exec_ret.maps]

\* C22: each execute() builds its result from scratch and leaves the results
\* returned earlier as they were.
C22_ResultFromScratch == [][C22_MadeByTheCall]_vars

----------------------------------------------------------------------------
(* Properties of engines that outlive scans and loads, stated of           *)
(* SpecSnapshot                                                            *)

\* the engine whose script runs in the step, 0 when the step is no call
Running == IF ExecuteStep THEN exec_ret'.engine ELSE 0

\* C23: the datasets of an engine are those it was made with until a script
\* of its own changes them: no connect() and no load_layer() on the catalog,
\* and no call on another engine, adds, removes or replaces one, and a later
\* execute() on the engine builds its namespace from them.
C23_BindingsAreASnapshot ==
    [][/\ \A e \in 1..Len(engines) :
             e # Running => engines'[e].layers = engines[e].layers
       /\ (Running \in 1..Len(engines) /\ exec_ret'.built) =>
             exec_ret'.datasets = engines[Running].layers]_vars

\* an engine was made over r, the catalog was scanned again and r loaded
\* anew, and a later call on the engine saw the handle it was made with
C23_Witness ==
    /\ exec_ret.op = "execute"
    /\ calls = 2
    /\ exec_ret.engine = 1
    /\ Len(engines) = 1
    /\ exec_ret.datasets = <<[name |-> N_r, gdf |-> 1]>>
    /\ HasKey(layers, N_r)
    /\ Get(layers, N_r).gdf = 2

----------------------------------------------------------------------------
(* Properties of the catalog under loads, stated of SpecStore *)

\* the step is load_layer(name)
LoadStep(name) ==
    /\ ret'.op = "load"
    /\ ret'.name = name
    /\ disk' = disk
    /\ observers' = observers

\* C7: load_layer(name) on an entry that holds a handle returns that very
\* handle, calls read_file no more, notifies nobody and leaves the entries
\* and the handles as they were.
C7_SecondLoadIsCached ==
    [][\A name \in LayerNames :
          (/\ HasKey(layers, name)
           /\ Get(layers, name).gdf # 0
           /\ LoadStep(name)) =>
              /\ ret'.gdf = Get(layers, name).gdf
              /\ ret'.parsed = 0
              /\ parses' = parses
              /\ layers' = layers
              /\ heap' = heap
              /\ notified' = <<>>]_vars

C7_Witness ==
    /\ ret.op = "load"
    /\ ret.gdf # 0
    /\ ret.parsed = 0
    /\ parses = 1
    /\ HasKey(layers, ret.name)
    /\ Get(layers, ret.name).gdf = ret.gdf

\* C8 (state): once a connect has succeeded, and until the next load, every
\* layer entry is not loaded and holds no handle.
C8_AllNotLoaded ==
    (ret.op = "connect" /\ ret.ok) =>
        \A i \in 1..Len(layers) : layers[i].gdf = 0 /\ ~layers[i].loaded

\* C8 (step): the first load_layer(name) after it calls read_file and, when
\* the file parses, returns and caches a handle that did not exist before.
C8_NextLoadParses ==
    (/\ ret.op = "connect"
     /\ ret.ok
     /\ HasKey(layers, ret'.name)
     /\ LoadStep(ret'.name)) =>
        LET before == Get(layers, ret'.name)
            after == Get(layers', ret'.name)
        IN  /\ ret'.parsed = 1
            /\ parses' = parses + 1
            /\ (ret'.gdf # 0) = (\E f \in disk : f.path = before.path /\ f.ok)
            /\ ret'.gdf # 0 =>
                  /\ ret'.gdf = Len(heap) + 1
                  /\ heap' = Append(heap, NewGdf(before.path))
                  /\ after.gdf = ret'.gdf
                  /\ after.loaded

\* C8: after a successful connect() (a second one on the same root included)
\* every entry is not loaded and without a handle, even if its path is
\* unchanged and it was loaded before; the next load(name) parses the file
\* again and, when the parse succeeds, caches a new handle.
C8_RescanDiscardsHandles == []C8_AllNotLoaded /\ [][C8_NextLoadParses]_vars

\* a second handle was read for the path of the first: the entry was loaded,
\* rescanned and loaded again
C8_Witness ==
    /\ ret.op = "load"
    /\ ret.gdf = 2
    /\ heap[1].path = heap[2].path
    /\ Get(layers, ret.name).gdf = 2

----------------------------------------------------------------------------
(* Properties of the scan, stated of SpecScan *)

\* the files of the given extensions in the folder connect() scans for them
ScopeFiles(d, sub, exts) ==
    {f \in Under(d, ScanScope(d, sub)) : Lower(f.ext) \in exts}

\* the step is a connect() that succeeds
ConnectStep ==
    /\ disk' = disk
    /\ ret'.op = "connect"
    /\ ret'.ok

\* C9: after every successful connect() the entries are exactly what this
\* scan found: each name is the stem of a file of its kind in the folder
\* scanned, each entry is built from such a file that is there now, and
\* nothing else is left from an earlier scan.
C9_EntriesAreTheScan ==
    [][ConnectStep =>
          LET L == ScopeFiles(disk, "capas", LAYER_EXTENSIONS)
              D == ScopeFiles(disk, "documentos", DOC_EXTENSIONS)
              M == ScopeFiles(disk, "mapas", MAP_EXTENSIONS)
          IN  /\ Keys(layers') = {f.stem : f \in L}
              /\ Keys(documents') = {f.stem : f \in D}
              /\ Keys(maps') = {f.stem : f \in M}
              /\ \A i \in 1..Len(layers') :
                    \E f \in L : layers'[i] = AnalyzeLayer(f)
              /\ \A i \in 1..Len(documents') :
                    \E f \in D : documents'[i] =
                        DocumentInfo(f.stem, f.path, Format(f.ext))
              /\ \A i \in 1..Len(maps') :
                    \E f \in M : maps'[i] = [name |-> f.stem, path |-> f.path]
              /\ Cardinality(Keys(layers')) = Len(layers')
              /\ Cardinality(Keys(documents')) = Len(documents')
              /\ Cardinality(Keys(maps')) = Len(maps')]_vars

C9_Witness ==
    /\ ret.op = "connect"
    /\ ret.ok
    /\ is_connected
    /\ Len(layers) = 1
    /\ Len(documents) = 1
    /\ Cardinality(disk) = 2

\* C10: a successful connect() reports as many layers as there are distinct
\* layer basenames, as many documents as there are document files and as many
\* maps as there are map-project files (in the folders it scans).
C10_CountsAreNMK ==
    [][ConnectStep =>
          /\ ret'.capas = Cardinality(
                {f.stem : f \in ScopeFiles(disk, "capas", LAYER_EXTENSIONS)})
          /\ ret'.documentos = Cardinality(
                ScopeFiles(disk, "documentos", DOC_EXTENSIONS))
          /\ ret'.mapas = Cardinality(
                ScopeFiles(disk, "mapas", MAP_EXTENSIONS))]_vars

\* C11: load_layer(name) whose read_file fails returns None without raising
\* and leaves the entry, which was not loaded, marked as failed: without a
\* handle and in a state other than the one it had as not loaded.
C11_FailedIsMarked ==
    [][\A name \in LayerNames :
          (/\ HasKey(layers, name)
           /\ Get(layers, name).gdf = 0
           /\ ~Get(layers, name).loaded
           /\ LoadStep(name)
           /\ ret'.parsed = 1
           /\ ~(\E f \in disk : f.path = Get(layers, name).path /\ f.ok)) =>
              /\ ret'.gdf = 0
              /\ Get(layers', name).gdf = 0
              /\ Get(layers', name) # Get(layers, name)]_vars

\* C12: connect(path) on a root that does not exist returns a failure dict
\* that carries an error naming the path and no summary of entry counts (and
\* no timestamp); a connect that succeeded was given a root that exists.
C12_MissingRootFails ==
    ret.op = "connect" =>
        /\ ret.ok => Exists(root_path) /\ ret.error = "None" /\ ret.summary
        /\ ~ret.ok =>
              /\ ret.error \in Roots
              /\ ~Exists(ret.error)
              /\ ~ret.summary
              /\ ret.capas = 0 /\ ret.documentos = 0 /\ ret.mapas = 0
              /\ ret.ts = 0

C12_Witness ==
    /\ ret.op = "connect"
    /\ ~ret.ok
    /\ ret.error = "missing"
    /\ is_connected
    /\ root_path = "R"

\* the entry of a layer file that could not be analyzed: name, path and
\* format, and the defaults of LayerInfo for the rest
Degraded(f) ==
    [name |-> f.stem, path |-> f.path, format |-> Format(f.ext),
     geometry_type |-> "None", crs |-> "None", feature_count |-> 0,
     columns |-> <<>>, bounds |-> <<>>, loaded |-> FALSE, gdf |-> 0]

\* C13: a layer file whose metadata cannot be read does not end the scan:
\* connect() on the existing root succeeds, every layer file of the folder
\* scanned has its name indexed, the documents and the maps are indexed, and
\* the entry built from the failing file has its name, path and format only
\* (no geometry type, no CRS, 0 features, no columns, no bounds, not loaded).
C13_FailingFileIsDegraded ==
    [][(/\ disk' = disk
        /\ ret'.op = "connect"
        /\ ret'.error = "None"
        /\ ret' # ret) =>
          LET L == ScopeFiles(disk, "capas", LAYER_EXTENSIONS) IN
          \A f \in L :
              ~f.ok =>
                  /\ ret'.ok
                  /\ \A g \in L : HasKey(layers', g.stem)
                  /\ \A i \in 1..Len(layers') :
                        layers'[i].path = f.path => layers'[i] = Degraded(f)
                  /\ (\A g \in L \ {f} : g.stem # f.stem) =>
                        Get(layers', f.stem) = Degraded(f)
                  /\ Keys(documents') =
                        {g.stem : g \in ScopeFiles(disk, "documentos",
                                                   DOC_EXTENSIONS)}
                  /\ Keys(maps') =
                        {g.stem : g \in ScopeFiles(disk, "mapas",
                                                   MAP_EXTENSIONS)}]_vars

\* the failing file came first in the walk and the file after it is indexed
C13_Witness ==
    /\ ret.op = "connect"
    /\ ret.ok
    /\ Len(ret.walk) = 2
    /\ ~ret.walk[1].ok
    /\ Len(layers) = 2
    /\ layers[1] = Degraded(ret.walk[1])
    /\ layers[2] = AnalyzeLayer(ret.walk[2])
    /\ layers[2].geometry_type = "Polygon"

\* the first layer file of the walk w that has the given base name
FirstOf(w, stem) ==
    w[CHOOSE i \in 1..Len(w) :
        /\ Lower(w[i].ext) \in LAYER_EXTENSIONS
        /\ w[i].stem = stem
        /\ \A j \in 1..(i - 1) :
              ~(Lower(w[j].ext) \in LAYER_EXTENSIONS /\ w[j].stem = stem)]

\* C14: when a scan meets several layer files with one base name, the entry
\* kept under that name is the one built from the first of them in the walk.
C14_FirstFileWins ==
    (ret.op = "connect" /\ ret.ok) =>
        \A i \in 1..Len(layers) :
            layers[i] = AnalyzeLayer(FirstOf(ret.walk, layers[i].name))

\* the step is load_all_layers()
LoadAllStep ==
    /\ ret'.op = "load_all"
    /\ disk' = disk
    /\ observers' = observers

\* the entries of ls that hold a handle, each with its handle, in dict order
RECURSIVE Holding(_)
Holding(ls) ==
    IF ls = <<>> THEN <<>>
    ELSE LET rest == Holding(Tail(ls)) IN
         IF Head(ls).gdf # 0
         THEN <<[name |-> Head(ls).name, gdf |-> Head(ls).gdf]>> \o rest
         ELSE rest

\* C15: load_all_layers() calls read_file once for every entry that holds no
\* handle, whether or not an earlier load of it failed; an entry whose file
\* does not parse stays as it was and the entries after it are still loaded;
\* the dict returned is exactly the entries that hold a handle afterwards,
\* each with the handle cached on it.
C15_LoadAllIsBestEffort ==
    [][LoadAllStep =>
          /\ ret'.map = Holding(layers')
          /\ ret'.parsed = Cardinality({i \in 1..Len(layers) : layers[i].gdf = 0})
          /\ Len(layers') = Len(layers)
          /\ \A i \in 1..Len(layers) :
                LET old == layers[i]
                    new == layers'[i]
                IN  /\ old.gdf # 0 => new = old
                    /\ (old.gdf = 0 /\ ~Readable(disk, old.path)) => new = old
                    /\ (old.gdf = 0 /\ Readable(disk, old.path)) =>
                          /\ new = [old EXCEPT !.gdf = new.gdf, !.loaded = TRUE]
                          /\ new.gdf \in (Len(heap) + 1)..Len(heap')
                          /\ heap'[new.gdf] = NewGdf(old.path)]_vars

\* load_all_layers() met an entry that fails before one that loads
C15_Witness ==
    /\ ret.op = "load_all"
    /\ ret.parsed = 2
    /\ Len(layers) = 2
    /\ layers[1].gdf = 0
    /\ layers[2].gdf # 0
    /\ ret.map = <<[name |-> layers[2].name, gdf |-> layers[2].gdf]>>

\* C16: in every state of the catalog get_summary() reports the number of
\* layer, document and map entries there are, and as capas_cargadas the
\* number of layer entries that hold a handle; an entry is flagged loaded
\* exactly when it holds one.
C16_SummaryCounts ==
    /\ GetSummary.total_capas = Cardinality(Keys(layers))
    /\ GetSummary.total_documentos = Cardinality(Keys(documents))
    /\ GetSummary.total_mapas = Cardinality(Keys(maps))
    /\ GetSummary.capas_cargadas =
          Cardinality({n \in Keys(layers) : Get(layers, n).gdf # 0})
    /\ \A i \in 1..Len(layers) :
          /\ layers[i].loaded <=> layers[i].gdf # 0
          /\ layers[i].gdf # 0 => layers[i].gdf \in 1..Len(heap)

\* two layer entries, one of them loaded
C16_Witness ==
    /\ GetSummary.total_capas = 2
    /\ GetSummary.capas_cargadas = 1
    /\ \E i \in 1..2 : layers[i].loaded /\ ~layers[3 - i].loaded
    /\ ret.op = "load"

\* the files of d that lie under the folder sub
Inside(d, sub) == {f \in d : f.folder = sub}

\* connect() treated one kind as the claim says: exts are the extensions of
\* the kind, sub its conventional subfolder and paths the paths of the
\* entries of the kind after the scan
KindScanned(d, sub, exts, paths) ==
    LET kind == {f \in d : Lower(f.ext) \in exts} IN
    /\ paths \subseteq {f.path : f \in kind}
    /\ Inside(d, sub) # {} =>
          /\ paths \subseteq {f.path : f \in Inside(d, sub)}
          /\ \A f \in kind \cap Inside(d, sub) :
                \E g \in kind \cap Inside(d, sub) : g.stem = f.stem /\ g.path \in paths
    /\ (\E p \in paths : p \notin {f.path : f \in Inside(d, sub)}) =>
          ~\E f \in d : f.folder = sub \/ f.path = sub
    /\ (~\E f \in d : f.folder = sub \/ f.path = sub) =>
          \A f \in kind : \E g \in kind : g.stem = f.stem /\ g.path \in paths

\* C24: a successful connect() treats each kind by itself: when the
\* subfolder of the kind is there, every entry of the kind comes from a file
\* under it and every file of the kind under it is indexed (under its stem);
\* an entry comes from a file outside the subfolder only when nothing of
\* that name is there, and then the files of the kind of the whole root are
\* indexed, those under the subfolders of the other kinds included.
C24_EachKindItsOwnFolder ==
    [][ConnectStep =>
          /\ KindScanned(disk, "capas", LAYER_EXTENSIONS,
                         {layers'[i].path : i \in 1..Len(layers')})
          /\ KindScanned(disk, "documentos", DOC_EXTENSIONS,
                         {documents'[i].path : i \in 1..Len(documents')})
          /\ KindScanned(disk, "mapas", MAP_EXTENSIONS,
                         {maps'[i].path : i \in 1..Len(maps')})]_vars

\* a scan that took the layers from capas and left out the layer of the root
C24_Witness ==
    /\ ret.op = "connect"
    /\ ret.ok
    /\ \E f \in disk : f.path = "b.gpkg"
    /\ \E f \in disk : f.path = "capas/r.shp"
    /\ Len(layers) = 1
    /\ layers[1].path = "capas/r.shp"

\* the step is a connect() that fails
ConnectFails ==
    /\ ret'.op = "connect"
    /\ ~ret'.ok
    /\ disk' = disk
    /\ observers' = observers

\* C25: a connect() that fails leaves the root path, the entries of the
\* three kinds with their handles and loaded flags, the GeoDataFrames, the
\* connection flag and the time of the last scan as they were, and calls no
\* observer.
C25_FailedConnectIsNoop ==
    [][ConnectFails =>
          /\ root_path' = root_path
          /\ layers' = layers
          /\ documents' = documents
          /\ maps' = maps
          /\ heap' = heap
          /\ is_connected' = is_connected
          /\ last_scan' = last_scan
          /\ notified' = <<>>]_vars

\* a connect() failed on a catalog that is connected, has an observer and
\* holds a loaded entry
C25_Witness ==
    /\ ret.op = "connect"
    /\ ~ret.ok
    /\ is_connected
    /\ root_path = "R"
    /\ last_scan > 0
    /\ Len(observers) > 0
    /\ \E i \in 1..Len(layers) : layers[i].loaded /\ layers[i].gdf # 0

\* the calls n are one call per registered observer, in the order of
\* registration, all of the given event
OncePerObserver(n, event) ==
    /\ Len(n) = Len(observers)
    /\ \A i \in 1..Len(n) : n[i].observer = observers[i] /\ n[i].event = event

\* the observer called by c finds the handle c.gdf cached on the entry c.name
SeesCached(c) ==
    /\ HasKey(c.seen.layers, c.name)
    /\ Get(c.seen.layers, c.name).gdf = c.gdf
    /\ Get(c.seen.layers, c.name).loaded
    /\ c.gdf # 0

\* C28 (connect): a connect() that succeeds calls each observer once with
\* 'connected', and the observer finds the new entries, the flag and the
\* timestamp of this scan; a connect() that fails calls none.
C28_Connected ==
    /\ ConnectStep /\ observers' = observers =>
          /\ OncePerObserver(notified', "connected")
          /\ \A i \in 1..Len(notified') :
                notified'[i].seen = Seen(TRUE, ret'.ts, layers')
          /\ is_connected' /\ last_scan' = ret'.ts
    /\ ConnectFails => notified' = <<>>

\* C28 (load): a load_layer(name) that reads the file and gets a handle calls
\* each observer once with 'layer_loaded', the name and the handle, and the
\* observer finds the handle cached on the entry; a load of an entry that
\* holds a handle, a load that fails and a load of an unknown name call none.
C28_LayerLoaded ==
    \A name \in LayerNames :
        LoadStep(name) =>
            IF HasKey(layers, name) /\ Get(layers, name).gdf = 0 /\ ret'.gdf # 0
            THEN /\ OncePerObserver(notified', "layer_loaded")
                 /\ \A i \in 1..Len(notified') :
                       /\ notified'[i].name = name
                       /\ notified'[i].gdf = ret'.gdf
                       /\ notified'[i].seen.layers = layers'
                       /\ SeesCached(notified'[i])
            ELSE notified' = <<>>

\* C28 (load all): load_all_layers() makes these calls for each entry it
\* materializes, and for no other.
C28_AllLoaded ==
    LoadAllStep =>
        LET made == {i \in 1..Len(layers) : layers[i].gdf = 0 /\ layers'[i].gdf # 0} IN
        /\ Len(notified') = Len(observers) * Cardinality(made)
        /\ \A j \in 1..Len(notified') :
              /\ notified'[j].event = "layer_loaded"
              /\ SeesCached(notified'[j])
              /\ \E i \in made : /\ layers'[i].name = notified'[j].name
                                 /\ layers'[i].gdf = notified'[j].gdf
        /\ \A i \in made, o \in 1..Len(observers) :
              Cardinality({j \in 1..Len(notified') :
                              /\ notified'[j].name = layers'[i].name
                              /\ notified'[j].observer = observers[o]}) = 1

\* C28: observers are called with 'connected' once per successful connect(),
\* when the entries, the flag and the timestamp are in place, and with
\* 'layer_loaded' once per handle materialized, when it is cached on its
\* entry; no other connect or load calls them.
C28_NotifiedOncePerEvent ==
    [][C28_Connected /\ C28_LayerLoaded /\ C28_AllLoaded]_vars

\* a load_layer() materialized a handle and the observer was called
C28_Witness ==
    /\ ret.op = "load"
    /\ ret.parsed = 1
    /\ ret.gdf # 0
    /\ Len(observers) = 1
    /\ Len(notified) = 1
    /\ notified[1].event = "layer_loaded"
    /\ notified[1].gdf = ret.gdf

\* ---------------------------------------------------------------------
\* Properties of calls that overlap, stated of SpecOverlap
\* ---------------------------------------------------------------------

\* every caller has been given the result of its call, and one call began
\* while another was under way
BothReturned ==
    /\ \A t \in 1..MaxThreads : threads[t].pc = "done" /\ threads[t].ret.returned
    /\ \E t \in 1..MaxThreads : threads[t].overlap

\* the maps that the call of caller t gave back were constructed by its script
OwnMaps(t) ==
    threads[t].ret.maps # 0 =>
        \A i \in 1..Len(lists[threads[t].ret.maps]) :
            lists[threads[t].ret.maps][i] \in threads[t].made

\* C27: when two execute() calls overlap, once both have returned the map
\* constructor is the original one again and the capturedMaps of each call
\* holds only the maps that its own script constructed
C27_OverlapLeavesNoTrace ==
    BothReturned =>
        /\ folium_Map = <<>>
        /\ \A t \in 1..MaxThreads : OwnMaps(t)

====
